---------------------------- MODULE Spec2Model ----------------------------
(***************************************************************************)
(* A model of ntp_dst.py: an NTP server that answers every client query    *)
(* with the time of an upstream NTP server (or, failing that, of the local *)
(* clock) shifted by a daylight-saving offset.                             *)
(*                                                                         *)
(* Numbers.  TLC's integers are 32-bit signed, and the program's numbers   *)
(* are Python integers that are written to unsigned 32-bit fields.  A      *)
(* "wide" number is therefore a pair <<hi, lo>> that stands for            *)
(* hi * 2^16 + lo, with lo in 0..2^16-1 and hi any natural number: a value *)
(* fits an unsigned 32-bit field exactly when hi < 2^16.                   *)
(***************************************************************************)
EXTENDS Integers, Sequences, FiniteSets, TLC

VARIABLES
    pc,               \* where run_ntp_server is: "recv", "handle", "send", "crashed"
    err,              \* the exception that ended run_ntp_server ("" while it runs)
    net,              \* datagrams queued on the server socket, oldest first
    nsent,            \* how many datagrams the clients have sent so far
    client_data,      \* the datagram of the current iteration
    client_address,   \* and the address it came from
    response_packet,  \* the packet create_ntp_response returned
    out,              \* datagrams the server has sent, oldest first
    hist,             \* datagrams the server has received, oldest first
    fetched,          \* what get_time_from_ntp_server returned for the request
    offset,           \* the seconds get_spoofed_ntp_time added for the request
    now,              \* the datetime.now() that is_dst read
    dow,              \* the weekday of now's date, counted day by day
    seenApr,          \* the day of this year's first Sunday of April, 0 before it
    seenOct,          \* the day of this year's first Sunday of October, 0 before it
    decision          \* the offset decided at now: <<>> before, <<0>> or <<3600>>

vars == <<pc, err, net, nsent, client_data, client_address, response_packet,
          out, hist, fetched, offset, now, dow, seenApr, seenOct, decision>>

serverVars == <<pc, err, net, nsent, client_data, client_address,
                response_packet, out, hist, fetched, offset>>

calendarVars == <<dow, seenApr, seenOct, decision>>

-----------------------------------------------------------------------------
(* Bounds of the model. *)

\* Datagrams the clients send in one run.
MaxDatagrams == 2

\* Years the calendar walk covers, from 2022 on.
NumYears == 8

-----------------------------------------------------------------------------
(* Wide numbers. *)

Half == 2^16

Wide(hi, lo) == <<hi, lo>>

\* a + n, for a wide a and a natural n < 2^16.
WideAdd(a, n) == <<a[1] + ((a[2] + n) \div Half), (a[2] + n) % Half>>

\* a + b, for two wide numbers.
WideSum(a, b) == <<a[1] + b[1] + ((a[2] + b[2]) \div Half), (a[2] + b[2]) % Half>>

\* Whether a value is in 0 .. 2^32 - 1, the range of struct format 'I'.
FitsU32(a) == a[1] < Half

NTP_TIMESTAMP_DELTA == Wide(33706, 32384)   \* 2208988800

-----------------------------------------------------------------------------
(* struct.pack and struct.unpack, network byte order. *)

StructError == "struct.error"

\* The four bytes of one 'I' field, most significant first.
PackI(w) == <<w[1] \div 256, w[1] % 256, w[2] \div 256, w[2] % 256>>

\* One 'b' field: a signed 8-bit value in two's complement.
Packb(x) == <<(x + 256) % 256>>

\* One 'B' field.
PackB(x) == <<x>>

\* The 'I' field that starts at byte i (1-based) of data.
UnpackI(data, i) ==
    Wide(data[i] * 256 + data[i + 1], data[i + 2] * 256 + data[i + 3])

\* struct.unpack('!12I', data) raises struct.error when data is not 48
\* bytes long,
Unpack12IRaises(data) == Len(data) # 48

\* and returns twelve words otherwise.
Unpack12I(data) == [k \in 1..12 |-> UnpackI(data, 4 * (k - 1) + 1)]

RECURSIVE PackWords(_)
PackWords(ws) ==
    IF ws = <<>> THEN <<>> ELSE PackI(Head(ws)) \o PackWords(Tail(ws))

\* struct.pack('!B b b b 11I', ...) raises struct.error when a word is out
\* of the range of 'I',
PackRaises(ws) == \E k \in 1..Len(ws) : ~FitsU32(ws[k])

\* and returns 4 + 4 * Len(ws) bytes otherwise.
PackResponse(B, b1, b2, b3, ws) ==
    PackB(B) \o Packb(b1) \o Packb(b2) \o Packb(b3) \o PackWords(ws)

-----------------------------------------------------------------------------
(* datetime: the proleptic Gregorian calendar, as the datetime module      *)
(* computes it.  A datetime is [year, month, day, sec], sec the seconds    *)
(* since midnight; datetimes compare field by field.                       *)

IsLeap(y) == y % 4 = 0 /\ (y % 100 # 0 \/ y % 400 = 0)

DaysInMonth(y, m) ==
    IF m = 2 THEN (IF IsLeap(y) THEN 29 ELSE 28)
    ELSE IF m \in {4, 6, 9, 11} THEN 30 ELSE 31

\* Days before January 1st of year y.
DaysBeforeYear(y) ==
    (y - 1) * 365 + ((y - 1) \div 4) - ((y - 1) \div 100) + ((y - 1) \div 400)

RECURSIVE DaysBeforeMonth(_, _)
DaysBeforeMonth(y, m) ==
    IF m = 1 THEN 0 ELSE DaysBeforeMonth(y, m - 1) + DaysInMonth(y, m - 1)

\* date.toordinal(): January 1st of year 1 is day 1.
ToOrdinal(y, m, d) == DaysBeforeYear(y) + DaysBeforeMonth(y, m) + d

\* date.weekday(): Monday is 0, Sunday is 6.
Weekday(y, m, d) == (ToOrdinal(y, m, d) + 6) % 7

DateTime(y, m, d, s) == [year |-> y, month |-> m, day |-> d, sec |-> s]

\* dt + timedelta(days = k), for 0 <= k <= 27: the date moves on, the time
\* of day stays.
PlusDays(dt, k) ==
    IF dt.day + k <= DaysInMonth(dt.year, dt.month)
    THEN [dt EXCEPT !.day = dt.day + k]
    ELSE IF dt.month < 12
    THEN [dt EXCEPT !.month = dt.month + 1,
                    !.day = dt.day + k - DaysInMonth(dt.year, dt.month)]
    ELSE [dt EXCEPT !.year = dt.year + 1, !.month = 1,
                    !.day = dt.day + k - DaysInMonth(dt.year, dt.month)]

\* a <= b on datetimes.
DtLeq(a, b) ==
    \/ a.year < b.year
    \/ a.year = b.year /\ a.month < b.month
    \/ a.year = b.year /\ a.month = b.month /\ a.day < b.day
    \/ a.year = b.year /\ a.month = b.month /\ a.day = b.day /\ a.sec <= b.sec

\* a < b on datetimes.
DtLess(a, b) == DtLeq(a, b) /\ a # b

-----------------------------------------------------------------------------
(* is_dst *)

\* 6 - weekday(), one day further from Sunday than the code goes.
DaysToSundayLate(first) == 7 - Weekday(first.year, first.month, first.day)

\* The days from a date to the Sunday on or after it.
DaysToSunday(first) == 6 - Weekday(first.year, first.month, first.day)

\* The first Sunday of month m of year y, at 00:00.
FirstSunday(y, m) ==
    LET first == DateTime(y, m, 1, 0)
    IN  PlusDays(first, DaysToSunday(first))

first_sunday_april(n) == FirstSunday(n.year, 4)

first_sunday_october(n) == FirstSunday(n.year, 10)

\* is_dst(), with n the value datetime.now() returned.
is_dst(n) ==
    IF DtLeq(first_sunday_april(n), n) /\ DtLess(n, first_sunday_october(n))
    THEN FALSE
    ELSE TRUE

\* The seconds get_spoofed_ntp_time adds: offset_hours * 3600.
DstOffset(n) == (IF is_dst(n) THEN 1 ELSE 0) * 3600

-----------------------------------------------------------------------------
(* The inputs of one request. *)

Clients == {"c1", "c2"}

RECURSIVE Zeros(_)
Zeros(n) == IF n = 0 THEN <<>> ELSE <<0>> \o Zeros(n - 1)

\* A client request: first byte 0x23 (version 4, mode 3), the transmit
\* timestamp (sec, frac) in words 10 and 11, everything else zero.
Request(sec, frac) == <<35>> \o Zeros(39) \o PackI(sec) \o PackI(frac)

\* What each client may send: a well-formed request, or a datagram that is
\* too short (c1: 10 bytes) or too long (c2: 52 bytes).
Payloads(c) ==
    IF c = "c1"
    THEN {Request(Wide(0, 100), Wide(0, 200)), <<35>> \o Zeros(9)}
    ELSE {Request(Wide(60595, 60081), Wide(258, 772)),
          Request(Wide(60595, 60081), Wide(258, 772)) \o Zeros(4)}

\* An upstream reply of 48 bytes whose transmit timestamp seconds are x.
Reply(x) == <<36, 2>> \o Zeros(38) \o PackI(x) \o PackI(Wide(32768, 1))

\* What the exchange with the upstream server can come to: no socket, an
\* error in sendto (name resolution included), no reply within the timeout,
\* or a datagram of up to 1024 bytes.  The replies carry the seconds
\* 3971214000, 2^32 - 3601 and 2^32 - 3600, or are of another length.
UpstreamOutcomes ==
    {[kind |-> "socket_error"], [kind |-> "send_error"], [kind |-> "timeout"]}
    \cup {[kind |-> "reply", data |-> d] :
            d \in {Reply(Wide(60595, 60080)),
                   Reply(Wide(65535, 61935)),
                   Reply(Wide(65535, 61936)),
                   Zeros(12),
                   Reply(Wide(60595, 60080)) \o Zeros(20)}}

\* One second of the local clock, in the units a float of this magnitude
\* resolves: between 2^30 and 2^31 a double has 22 bits below the point.
TicksPerSecond == 2^22

\* time.time(): whole seconds and ticks.  1762225200 s, on the second and
\* a little past the half second.
LocalClock ==
    {[sec |-> Wide(26889, 27696), ticks |-> 0],
     [sec |-> Wide(26889, 27696), ticks |-> (TicksPerSecond \div 2) + 3]}

\* datetime.now(): a second before, at and after each boundary of 2025.
ServerNows ==
    {DateTime(2025, 4, 5, 86399), DateTime(2025, 4, 6, 0),
     DateTime(2025, 10, 4, 86399), DateTime(2025, 10, 5, 0)}

-----------------------------------------------------------------------------
(* get_time_from_ntp_server *)

OSError == "OSError"

\* src: who gave the value ("upstream", "local"; "raised" when the call
\* raised instead of returning; "none" before the call); cause: how the
\* exchange ended; sec and ticks: the value, ticks being 0 for an integer.
NoFetch == [src |-> "none", cause |-> "none", sec |-> Wide(0, 0), ticks |-> 0]

\* The value returned for upstream outcome u when the local clock reads t:
\* the reply's word 10 as an integer, or the clock's float on any exception
\* raised inside the try block.  socket.socket() is called before the try
\* block: its exception leaves the function.
get_time_from_ntp_server(u, t) ==
    IF u.kind = "socket_error"
    THEN [NoFetch EXCEPT !.src = "raised", !.cause = u.kind]
    ELSE IF u.kind = "reply" /\ ~Unpack12IRaises(u.data)
    THEN [src |-> "upstream", cause |-> "reply",
          sec |-> Unpack12I(u.data)[11], ticks |-> 0]
    ELSE [src |-> "local",
          cause |-> IF u.kind = "reply" THEN "bad_length" ELSE u.kind,
          sec |-> t.sec, ticks |-> t.ticks]

-----------------------------------------------------------------------------
(* get_spoofed_ntp_time and create_ntp_response *)

\* current_time + offset_hours * 3600.
SpoofedTime(current_time, off) ==
    [current_time EXCEPT !.sec = WideAdd(current_time.sec, off)]

\* A transmit timestamp read two words early.
ClientTransmitEarly(client_packet) == <<client_packet[9], client_packet[10]>>

\* client_packet[10], client_packet[11] (0-based).
ClientTransmit(client_packet) == <<client_packet[11], client_packet[12]>>

\* A fraction that drops the float's fractional part.
FractionalSecondsZero(spoofed) == Wide(0, 0)

\* int((spoofed_ntp_time % 1) * 2**32): ticks * 2^32 / TicksPerSecond, that
\* is ticks * 2^10, as a wide number.
FractionalSeconds(spoofed) ==
    Wide(spoofed.ticks \div 64, (spoofed.ticks % 64) * 1024)

\* A mode field of 3 (client).
LI_VN_MODE_Client == (0 * 64) + (4 * 8) + 3

\* (0 << 6) | (4 << 3) | 4
LI_VN_MODE == (0 * 64) + (4 * 8) + 4

LOCL == Wide(19535, 17228)   \* 0x4C4F434C

\* The words with the receive timestamp left zero.
PacketWordsNoReceive(spoofed_int, frac, orig) ==
    <<Wide(0, 0), Wide(0, 0), LOCL,
      spoofed_int, frac, orig[1], orig[2],
      Wide(0, 0), Wide(0, 0), spoofed_int, frac>>

\* The eleven 'I' arguments of struct.pack in create_ntp_response: root
\* delay, root dispersion, reference identifier, and the reference,
\* originate, receive and transmit timestamps.
PacketWords(spoofed_int, frac, orig) ==
    <<Wide(0, 0), Wide(0, 0), LOCL,
      spoofed_int, frac, orig[1], orig[2],
      spoofed_int, frac, spoofed_int, frac>>

\* create_ntp_response(data) when the upstream exchange comes to u, the
\* local clock reads t and datetime.now() is n.  raised names the exception
\* that leaves the function, "" when it returns packet.
create_ntp_response(data, u, t, n) ==
    LET client_packet == Unpack12I(data)
        current_time == get_time_from_ntp_server(u, t)
        off == DstOffset(n)
        spoofed == SpoofedTime(current_time, off)
        words == PacketWords(spoofed.sec, FractionalSeconds(spoofed),
                             ClientTransmit(client_packet))
    IN  IF Unpack12IRaises(data)
        THEN [raised |-> StructError, packet |-> <<>>,
              fetched |-> NoFetch, offset |-> 0]
        ELSE IF current_time.src = "raised"
        THEN [raised |-> OSError, packet |-> <<>>,
              fetched |-> current_time, offset |-> 0]
        ELSE IF PackRaises(words)
        THEN [raised |-> StructError, packet |-> <<>>,
              fetched |-> current_time, offset |-> off]
        ELSE [raised |-> "",
              packet |-> PackResponse(LI_VN_MODE, 1, 4, -20, words),
              fetched |-> current_time, offset |-> off]

-----------------------------------------------------------------------------
(* run_ntp_server and its clients *)

\* A client sends datagram d to the server's port.
ClientSend(c, d) ==
    /\ nsent < MaxDatagrams
    /\ net' = Append(net, [data |-> d, addr |-> c])
    /\ nsent' = nsent + 1
    /\ UNCHANGED <<pc, err, client_data, client_address, response_packet,
                   out, hist, fetched, offset>>
    /\ UNCHANGED <<now, calendarVars>>

\* server_socket.recvfrom(1024)
Recv ==
    /\ pc = "recv"
    /\ net # <<>>
    /\ client_data' = Head(net).data
    /\ client_address' = Head(net).addr
    /\ net' = Tail(net)
    /\ hist' = Append(hist, Head(net))
    /\ pc' = "handle"
    /\ fetched' = NoFetch
    /\ offset' = 0
    /\ UNCHANGED <<err, nsent, response_packet, out>>
    /\ UNCHANGED <<now, calendarVars>>

\* response_packet = create_ntp_response(client_data); an exception is
\* caught nowhere and ends the program.
Handle(u, t, n) ==
    /\ pc = "handle"
    /\ LET r == create_ntp_response(client_data, u, t, n)
       IN  /\ fetched' = r.fetched
           /\ offset' = r.offset
           /\ IF r.raised = ""
              THEN /\ response_packet' = r.packet
                   /\ pc' = "send"
                   /\ err' = err
              ELSE /\ response_packet' = response_packet
                   /\ pc' = "crashed"
                   /\ err' = r.raised
    /\ UNCHANGED <<net, nsent, client_data, client_address, out, hist>>
    /\ UNCHANGED <<now, calendarVars>>

\* server_socket.sendto(response_packet, client_address)
Send ==
    /\ pc = "send"
    /\ out' = Append(out, [data |-> response_packet, addr |-> client_address])
    /\ pc' = "recv"
    /\ UNCHANGED <<err, net, nsent, client_data, client_address,
                   response_packet, hist, fetched, offset>>
    /\ UNCHANGED <<now, calendarVars>>

-----------------------------------------------------------------------------
(* The calendar, walked day by day from Saturday 2022-01-01: the weekday   *)
(* is counted, not computed, and the first Sunday of April and of October  *)
(* are noted as the walk passes them.                                      *)

\* The next of the three instants of a day that the walk visits: 00:00:00,
\* 00:00:01 and 23:59:59.
NextSec(s) == IF s = 0 THEN 1 ELSE IF s = 1 THEN 86399 ELSE 0

Tomorrow(n) ==
    IF n.day < DaysInMonth(n.year, n.month)
    THEN DateTime(n.year, n.month, n.day + 1, 0)
    ELSE IF n.month < 12
    THEN DateTime(n.year, n.month + 1, 1, 0)
    ELSE DateTime(n.year + 1, 1, 1, 0)

\* Time passes within the day.
Tick ==
    /\ now.sec # 86399
    /\ now' = [now EXCEPT !.sec = NextSec(now.sec)]
    /\ decision' = <<>>
    /\ UNCHANGED <<dow, seenApr, seenOct>>
    /\ UNCHANGED serverVars

\* Midnight.
NextDay ==
    /\ now.sec = 86399
    /\ Tomorrow(now).year < 2022 + NumYears
    /\ now' = Tomorrow(now)
    /\ dow' = (dow + 1) % 7
    /\ seenApr' = IF now'.year # now.year THEN 0
                  ELSE IF now'.month = 4 /\ dow' = 6 /\ seenApr = 0
                  THEN now'.day ELSE seenApr
    /\ seenOct' = IF now'.year # now.year THEN 0
                  ELSE IF now'.month = 10 /\ dow' = 6 /\ seenOct = 0
                  THEN now'.day ELSE seenOct
    /\ decision' = <<>>
    /\ UNCHANGED serverVars

\* get_spoofed_ntp_time asks is_dst at this instant.
Decide ==
    /\ decision = <<>>
    /\ decision' = <<DstOffset(now)>>
    /\ UNCHANGED <<now, dow, seenApr, seenOct>>
    /\ UNCHANGED serverVars

-----------------------------------------------------------------------------
(* Specifications *)

Init ==
    /\ pc = "recv"
    /\ err = ""
    /\ net = <<>>
    /\ nsent = 0
    /\ client_data = <<>>
    /\ client_address = ""
    /\ response_packet = <<>>
    /\ out = <<>>
    /\ hist = <<>>
    /\ fetched = NoFetch
    /\ offset = 0
    /\ now = DateTime(2022, 1, 1, 0)
    /\ dow = 5
    /\ seenApr = 0
    /\ seenOct = 0
    /\ decision = <<>>

Next ==
    \/ \E c \in Clients : \E d \in Payloads(c) : ClientSend(c, d)
    \/ Recv
    \/ \E u \in UpstreamOutcomes : \E t \in LocalClock : \E n \in ServerNows :
          Handle(u, t, n)
    \/ Send

\* The server and its clients.
Spec == Init /\ [][Next]_vars

NextDst == Tick \/ NextDay \/ Decide

\* is_dst over every instant of the calendar walk.
SpecDst == Init /\ [][NextDst]_vars

-----------------------------------------------------------------------------
(* Reading a packet back, for the properties below. *)

\* Word k (0-based) of a 48-byte packet.
WordAt(p, k) == UnpackI(p, 4 * k + 1)

\* A byte read as a signed 8-bit value.
Signed8(b) == IF b >= 128 THEN b - 256 ELSE b

WellFormed(m) == Len(m.data) = 48

\* The well-formed requests among the datagrams received, oldest first.
Answerable == SelectSeq(hist, WellFormed)

\* Every packet the server has built: those sent and the one about to be.
Built ==
    {out[i].data : i \in 1..Len(out)}
    \cup (IF pc = "send" THEN {response_packet} ELSE {})

-----------------------------------------------------------------------------
(* Properties *)

\* C1: every response carries in its Originate Timestamp (words 6 and 7)
\* the transmit timestamp (words 10 and 11) of the request it answers,
\* whatever the upstream outcome, the clock and the DST decision were.
C1_OriginateEchoesTransmit ==
    /\ pc = "send" =>
          /\ WordAt(response_packet, 6) = WordAt(client_data, 10)
          /\ WordAt(response_packet, 7) = WordAt(client_data, 11)
    /\ \A i \in 1..Len(out) :
          /\ i <= Len(Answerable)
          /\ WordAt(out[i].data, 6) = WordAt(Answerable[i].data, 10)
          /\ WordAt(out[i].data, 7) = WordAt(Answerable[i].data, 11)

\* The last response sent answers the request with transmit timestamp
\* (3971214001, 0x01020304); it was built from the local clock with the
\* offset 3600.
C1_Witness ==
    /\ Len(out) >= 1
    /\ WordAt(out[Len(out)].data, 6) = Wide(60595, 60081)
    /\ WordAt(out[Len(out)].data, 7) = Wide(258, 772)
    /\ fetched.src = "local"
    /\ offset = 3600

\* C2: a datagram that is not 48 bytes long is dropped: it gets no
\* response and it does not end the server.
C2_MalformedDatagramDropped ==
    /\ ~(pc = "crashed" /\ Len(client_data) # 48)
    /\ Len(out) <= Len(Answerable)

\* C3: get_time_from_ntp_server never raises, and on every failure of the
\* upstream exchange it returns the local clock's time.
C3_FetchNeverRaises ==
    /\ fetched.src # "raised"
    /\ fetched.cause \in {"socket_error", "send_error", "timeout", "bad_length"}
          => fetched.src = "local"

\* C5: every response is 48 bytes long with the same header: LI 0, VN 4,
\* Mode 4, Stratum 1, Poll 4, Precision -20, Root Delay 0, Root Dispersion
\* 0, Reference Identifier "LOCL" (bytes 76, 79, 67, 76).
C5_HeaderFixed ==
    \A p \in Built :
        /\ Len(p) = 48
        /\ p[1] \div 64 = 0
        /\ (p[1] \div 8) % 8 = 4
        /\ p[1] % 8 = 4
        /\ p[2] = 1
        /\ Signed8(p[3]) = 4
        /\ Signed8(p[4]) = -20
        /\ SubSeq(p, 5, 8) = <<0, 0, 0, 0>>
        /\ SubSeq(p, 9, 12) = <<0, 0, 0, 0>>
        /\ SubSeq(p, 13, 16) = <<76, 79, 67, 76>>

\* Two responses that differ in request and time have been sent.
C5_Witness ==
    /\ Len(out) >= 2
    /\ WordAt(out[1].data, 4) # WordAt(out[2].data, 4)
    /\ WordAt(out[1].data, 6) # WordAt(out[2].data, 6)

\* C6: in every response the Reference, Receive and Transmit timestamps
\* are one (seconds, fraction) pair, whose seconds are the fetched value
\* plus the offset (0 or 3600) decided for the request; with raw upstream
\* seconds X and offset 3600 they are X + 3600 with fraction 0.
C6_TimestampsShareSpoofedTime ==
    /\ \A p \in Built :
          /\ WordAt(p, 4) = WordAt(p, 8) /\ WordAt(p, 8) = WordAt(p, 10)
          /\ WordAt(p, 5) = WordAt(p, 9) /\ WordAt(p, 9) = WordAt(p, 11)
    /\ pc = "send" =>
          /\ offset \in {0, 3600}
          /\ WordAt(response_packet, 10) = WideAdd(fetched.sec, offset)
          /\ fetched.src = "upstream" /\ offset = 3600 =>
                /\ WordAt(response_packet, 4) = WideAdd(fetched.sec, 3600)
                /\ WordAt(response_packet, 5) = Wide(0, 0)

\* Upstream returned 3971214000 and the offset is 3600: the response
\* carries 3971217600.
C6_Witness ==
    /\ pc = "send"
    /\ fetched.src = "upstream"
    /\ fetched.sec = Wide(60595, 60080)
    /\ offset = 3600
    /\ WordAt(response_packet, 8) = Wide(60595, 63680)

\* C7: a seconds value beyond 2^32 - 1 is written modulo 2^32 and the
\* response is sent; it never ends the request or the server.
C7_OverflowWraps ==
    (fetched.src \in {"upstream", "local"}
        /\ ~FitsU32(WideAdd(fetched.sec, offset)))
    => /\ pc # "crashed"
       /\ pc = "send" =>
             WordAt(response_packet, 10)
                = Wide(WideAdd(fetched.sec, offset)[1] % Half,
                       WideAdd(fetched.sec, offset)[2])

\* C8: the seconds of a response are seconds since 1900: a value taken
\* from the local clock (Unix epoch) has 2208988800 added to it.
C8_SecondsSinceNtpEpoch ==
    pc = "send" /\ fetched.src = "local" =>
        WordAt(response_packet, 10)
            = WideAdd(WideSum(fetched.sec, NTP_TIMESTAMP_DELTA), offset)

\* C9: every well-formed request received gets exactly one response, to
\* the address it came from, before the next datagram is received.
C9_OneResponsePerRequest ==
    LET pending == IF pc \in {"handle", "send"} /\ Len(client_data) = 48
                   THEN 1 ELSE 0
    IN  /\ Len(out) + pending = Len(Answerable)
        /\ \A i \in 1..Len(out) : out[i].addr = Answerable[i].addr

C4_OffsetFollowsFirstSundays ==
    LET apr == first_sunday_april(now)
        oct == first_sunday_october(now)
        inWindow == seenApr # 0 /\ seenOct = 0
    IN  /\ apr.year = now.year /\ apr.month = 4 /\ apr.day \in 1..7
        /\ oct.year = now.year /\ oct.month = 10 /\ oct.day \in 1..7
        /\ apr.sec = 0 /\ oct.sec = 0
        /\ IF seenApr = 0 THEN DtLess(now, apr) ELSE apr.day = seenApr
        /\ IF seenOct = 0 THEN DtLess(now, oct) ELSE oct.day = seenOct
        /\ decision # <<>> =>
              decision[1] = IF inWindow THEN 0 ELSE 3600

\* now is the first Sunday of April at 00:00 and the offset decided is 0.
C4_Witness ==
    /\ now.month = 4 /\ now.day = seenApr /\ now.sec = 0
    /\ dow = 6
    /\ decision = <<0>>

=============================================================================
